---------------------------- MODULE Spec2Model ----------------------------
(* A state-machine model of lib/ts/BaseLogFile.{h,cc}: the BaseLogFile     *)
(* handle, its BaseMetaInfo sidecar store, and the part of the file        *)
(* system and descriptor table they act on.                                *)
EXTENDS Integers, Sequences, FiniteSets, TLC

VARIABLES
  now,      \* wall clock, the value time(0) returns
  fs,       \* file system: path -> file content (a sequence of bytes) or NoFile
  fdtab,    \* open file descriptions of the process, in order of creation
  heap,     \* the number of live BaseMetaInfo objects (allocated, not deleted)
  obj,      \* the BaseLogFile objects
  store,    \* a BaseMetaInfo constructed directly by a caller (MetaSpec)
  aborted,  \* the process was ended by ink_release_assert
  last,     \* history: the last operation performed and what it did
  hist      \* history: per object, whether some open_file() returned
            \* LOG_FILE_NO_ERROR (ok), and whether its latest open_file()
            \* returned LOG_FILE_COULD_NOT_OPEN_FILE (failed)

vars == <<now, fs, fdtab, heap, obj, store, aborted, last, hist>>

-----------------------------------------------------------------------------
(* Bounds of the model *)

MaxHandles == 2   \* BaseLogFile objects ever constructed
MaxTime    == 2   \* the clock runs from 1 to MaxTime
MaxBytes   == 1   \* bytes an external writer adds through one handle
MaxStores  == 2   \* BaseMetaInfo objects ever allocated by open_file
WordBits   == 5   \* width standing in for the 64 bits of uint64_t / time_t
MaxPathLen == 5   \* characters of a path given to rolled_logfile / _build_name
MaxLines   == 3   \* lines of a metafile found on disk

Handles == 1..MaxHandles
Word    == 2 ^ WordBits

-----------------------------------------------------------------------------
(* Program constants *)

STDOUT_FILENO                == 1
LOG_FILE_NO_ERROR            == 0
LOG_FILE_COULD_NOT_OPEN_FILE == 1
DATA_FROM_METAFILE           == 1
VALID_CREATION_TIME          == 2
VALID_SIGNATURE              == 4
FILE_OPEN_SUCCESSFUL         == 8
BUF_SIZE                     == 640

\* C strings are sequences of characters
StdoutName      == <<"s", "t", "d", "o", "u", "t">>
CreationTimeKey == <<"c", "r", "e", "a", "t", "i", "o", "n", "_", "t", "i", "m", "e">>
SignatureKey    == <<"o", "b", "j", "e", "c", "t", "_", "s", "i", "g", "n", "a", "t", "u", "r", "e">>
MetaExt         == <<".", "m", "e", "t", "a">>

LOGFILE_ROLLED_EXTENSION == <<".", "o", "l", "d">>

PlainName == <<"l">>
DirName   == <<"d", "/", "l">>
LogNames  == {PlainName, DirName}
Names     == {StdoutName} \cup LogNames

\* the (name, is_bootstrap) pairs objects are constructed with
CtorArgs == {<<StdoutName, TRUE>>, <<DirName, FALSE>>}

NoFile == <<"<absent>">>

\* the null BaseMetaInfo pointer
NULL == [_filename |-> <<>>, _creation_time |-> 0, _log_object_signature |-> 0,
         _flags |-> {}]

-----------------------------------------------------------------------------
(* Integer conversions *)

\* conversion to uint64_t / unsigned long
ToUnsigned(n) == n % Word

\* conversion to int64_t / time_t (two's complement)
ToSigned(n) == LET u == n % Word IN IF u >= Word \div 2 THEN u - Word ELSE u

DigitChars == <<"0", "1", "2", "3", "4", "5", "6", "7", "8", "9">>

IsDigit(c) == \E d \in 1..10 : DigitChars[d] = c

DigitVal(c) == (CHOOSE d \in 1..10 : DigitChars[d] = c) - 1

IsSpace(c) == c \in {" ", "\t", "\n", "\r"}

\* printf's %lu / PRIu64 conversion of an unsigned value
RECURSIVE FormatUnsigned(_)
FormatUnsigned(n) ==
  IF n < 10 THEN <<DigitChars[n + 1]>>
  ELSE FormatUnsigned(n \div 10) \o <<DigitChars[(n % 10) + 1]>>

\* ink_atoi64: skips leading white space, then accumulates decimal digits
\* into an int64_t until the first character that is not a digit
RECURSIVE AtoiDigits(_, _)
AtoiDigits(s, acc) ==
  IF s = <<>> \/ ~IsDigit(Head(s)) THEN acc
  ELSE AtoiDigits(Tail(s), ToSigned(acc * 10 + DigitVal(Head(s))))

RECURSIVE SkipSpace(_)
SkipSpace(s) == IF s # <<>> /\ IsSpace(Head(s)) THEN SkipSpace(Tail(s)) ELSE s

ink_atoi64(s) == AtoiDigits(SkipSpace(s), 0)

-----------------------------------------------------------------------------
(* Line reading and tokenizing, as _read_from_file uses them *)

\* ink_file_fd_readline: the lines of a file, each with its newline; every
\* line it returns has a positive length
RECURSIVE ReadLines(_, _)
ReadLines(content, cur) ==
  IF content = <<>> THEN (IF cur = <<>> THEN <<>> ELSE <<cur>>)
  ELSE IF Head(content) = "\n" THEN <<Append(cur, "\n")>> \o ReadLines(Tail(content), <<>>)
  ELSE ReadLines(Tail(content), Append(cur, Head(content)))

\* getNext returns NULL when no token is left
NoToken == <<"<null>">>

RECURSIVE SkipLeading(_)
SkipLeading(s) ==
  IF s # <<>> /\ (IsSpace(Head(s)) \/ Head(s) = "=") THEN SkipLeading(Tail(s)) ELSE s

RECURSIVE UpToDelimiter(_)
UpToDelimiter(s) ==
  IF s = <<>> \/ Head(s) = "=" THEN <<>> ELSE <<Head(s)>> \o UpToDelimiter(Tail(s))

RECURSIVE TrimRight(_)
TrimRight(s) ==
  IF s # <<>> /\ IsSpace(s[Len(s)]) THEN TrimRight(SubSeq(s, 1, Len(s) - 1)) ELSE s

\* SimpleTokenizer('=').getNext(): the next non-empty field, white space
\* trimmed on both sides, and the input left after it
getNext(s) ==
  LET body  == SkipLeading(s)
      field == UpToDelimiter(body)
      rest  == SubSeq(body, Len(field) + 2, Len(body))
  IN  IF body = <<>> THEN [t |-> NoToken, rest |-> <<>>]
      ELSE [t |-> TrimRight(field), rest |-> rest]

-----------------------------------------------------------------------------
(* BaseMetaInfo *)

\* the loop keeps the first '/' it meets instead of the last
RECURSIVE LastSlash_first(_, _, _)
LastSlash_first(filename, l, i) ==
  IF l >= Len(filename) THEN i
  ELSE LastSlash_first(filename, l + 1,
                       IF filename[l + 1] = "/" /\ i < 0 THEN l ELSE i)

\* index (from 0) of the last '/' of filename, -1 when there is none
RECURSIVE LastSlash(_, _, _)
LastSlash(filename, l, i) ==
  IF l >= Len(filename) THEN i
  ELSE LastSlash(filename, l + 1, IF filename[l + 1] = "/" THEN l ELSE i)

_build_name(filename) ==
  LET i == LastSlash(filename, 0, -1)
  IN  IF i < 0 THEN <<".">> \o filename \o MetaExt
      ELSE SubSeq(filename, 1, i + 1) \o <<".">>
             \o SubSeq(filename, i + 2, Len(filename)) \o MetaExt

\* the loop body without the test of line_number: an unrecognised key ends
\* the process on whatever line it stands
ParseLine_any_line(m, buffer, line_number) ==
  LET k == getNext(buffer)
      v == getNext(k.rest)
  IN  IF k.t = NoToken THEN [m |-> m, abort |-> FALSE]
      ELSE IF k.t = CreationTimeKey THEN
        IF v.t # NoToken
        THEN [m |-> [m EXCEPT !._creation_time = ToSigned(ink_atoi64(v.t)),
                              !._flags = @ \cup {VALID_CREATION_TIME}],
              abort |-> FALSE]
        ELSE [m |-> m, abort |-> FALSE]
      ELSE IF k.t = SignatureKey THEN
        IF v.t # NoToken
        THEN [m |-> [m EXCEPT !._log_object_signature = ToUnsigned(ink_atoi64(v.t)),
                              !._flags = @ \cup {VALID_SIGNATURE}],
              abort |-> FALSE]
        ELSE [m |-> m, abort |-> FALSE]
      ELSE [m |-> m, abort |-> TRUE]

\* one iteration of the loop of _read_from_file on the line in _buffer
ParseLine(m, buffer, line_number) ==
  LET k == getNext(buffer)
      v == getNext(k.rest)
  IN  IF k.t = NoToken THEN [m |-> m, abort |-> FALSE]
      ELSE IF k.t = CreationTimeKey THEN
        IF v.t # NoToken
        THEN [m |-> [m EXCEPT !._creation_time = ToSigned(ink_atoi64(v.t)),
                              !._flags = @ \cup {VALID_CREATION_TIME}],
              abort |-> FALSE]
        ELSE [m |-> m, abort |-> FALSE]
      ELSE IF k.t = SignatureKey THEN
        IF v.t # NoToken
        THEN [m |-> [m EXCEPT !._log_object_signature = ToUnsigned(ink_atoi64(v.t)),
                              !._flags = @ \cup {VALID_SIGNATURE}],
              abort |-> FALSE]
        ELSE [m |-> m, abort |-> FALSE]
      ELSE IF line_number = 1 THEN [m |-> m, abort |-> TRUE]
      ELSE [m |-> m, abort |-> FALSE]

RECURSIVE ParseLines(_, _, _)
ParseLines(m, lines, line_number) ==
  IF lines = <<>> THEN [m |-> m, abort |-> FALSE]
  ELSE LET r == ParseLine(m, Head(lines), line_number)
       IN  IF r.abort THEN r ELSE ParseLines(r.m, Tail(lines), line_number + 1)

\* openOk: the OS lets the metafile be opened for reading
_read_from_file(m, fsys, openOk) ==
  LET marked == [m EXCEPT !._flags = @ \cup {DATA_FROM_METAFILE}]
      fd_ok  == openOk /\ fsys[m._filename] # NoFile
  IN  IF ~fd_ok THEN [m |-> marked, abort |-> FALSE]
      ELSE ParseLines([marked EXCEPT !._flags = @ \cup {FILE_OPEN_SUCCESSFUL}],
                      ReadLines(fsys[m._filename], <<>>), 1)

\* a copy-and-paste slip: the signature goes out under the creation_time key
CreationTimeLine_signature(m) ==
  CreationTimeKey \o <<" ", "=", " ">>
    \o FormatUnsigned(m._log_object_signature) \o <<"\n">>

CreationTimeLine(m) ==
  CreationTimeKey \o <<" ", "=", " ">>
    \o FormatUnsigned(ToUnsigned(m._creation_time)) \o <<"\n">>

\* a copy-and-paste slip: the signature goes out under the creation_time key
SignatureLine_wrong_key(m) ==
  CreationTimeKey \o <<" ", "=", " ">> \o FormatUnsigned(m._log_object_signature) \o <<"\n">>

SignatureLine(m) ==
  SignatureKey \o <<" ", "=", " ">> \o FormatUnsigned(m._log_object_signature) \o <<"\n">>

\* io.open: the OS lets the metafile be opened for writing;
\* io.w1, io.w2: the two write() calls succeed
_write_to_file(m, fsys, io) ==
  LET hasT   == VALID_CREATION_TIME \in m._flags
      hasS   == VALID_SIGNATURE \in m._flags
      abortT == hasT /\ Len(CreationTimeLine(m)) > BUF_SIZE
      abortS == hasS /\ Len(SignatureLine(m)) > BUF_SIZE
      line1  == IF hasT /\ io.w1 /\ ~abortT THEN CreationTimeLine(m) ELSE <<>>
      line2  == IF hasS /\ io.w2 /\ ~abortT /\ ~abortS THEN SignatureLine(m) ELSE <<>>
  IN  IF ~io.open THEN [fs |-> fsys, abort |-> FALSE]
      ELSE [fs |-> [fsys EXCEPT ![m._filename] = line1 \o line2],
            abort |-> abortT \/ abortS]

\* BaseMetaInfo(const char *filename); garbageT and garbageS are what the
\* two members the constructor does not initialise happen to hold
BaseMetaInfoRead(filename, fsys, openOk, garbageT, garbageS) ==
  _read_from_file([_filename             |-> _build_name(filename),
                   _creation_time        |-> garbageT,
                   _log_object_signature |-> garbageS,
                   _flags                |-> {}],
                  fsys, openOk)

\* BaseMetaInfo(char *filename, time_t creation, uint64_t signature)
BaseMetaInfoWrite(filename, creation, signature, fsys, io) ==
  LET m == [_filename             |-> _build_name(filename),
            _creation_time        |-> creation,
            _log_object_signature |-> signature,
            _flags                |-> {VALID_CREATION_TIME, VALID_SIGNATURE}]
      w == _write_to_file(m, fsys, io)
  IN  [m |-> m, fs |-> w.fs, abort |-> w.abort]

get_creation_time(m) ==
  IF VALID_CREATION_TIME \in m._flags THEN <<TRUE, m._creation_time>> ELSE <<FALSE>>

get_log_object_signature(m) ==
  IF VALID_SIGNATURE \in m._flags THEN <<TRUE, m._log_object_signature>> ELSE <<FALSE>>

data_from_metafile(m) == DATA_FROM_METAFILE \in m._flags

file_open_successful(m) == FILE_OPEN_SUCCESSFUL \in m._flags

-----------------------------------------------------------------------------
(* The operating system *)

Paths == Names \cup {_build_name(n) : n \in Names}

\* the flag bits of open(2) that decide what the call does to the file
OpenFlags == SUBSET {"O_CREAT", "O_TRUNC", "O_APPEND"}

\* descriptors 0, 1 and 2 are the standard streams
FirstFd == 3

\* ::open(path, flags, perms); err: the call fails for a reason other than
\* a missing file (permissions, descriptor limit, O_EXCL on an existing
\* file, ...). A new description starts at offset 0.
OsOpen(fsys, tab, path, flags, err) ==
  LET there  == fsys[path] # NoFile
      failed == err \/ (~there /\ "O_CREAT" \notin flags)
      data   == IF ~there \/ "O_TRUNC" \in flags THEN <<>> ELSE fsys[path]
  IN  IF failed THEN [fd |-> -1, fs |-> fsys, tab |-> tab]
      ELSE [fd  |-> FirstFd + Len(tab),
            fs  |-> [fsys EXCEPT ![path] = data],
            tab |-> Append(tab, [path   |-> path, offset |-> 0,
                                 append |-> "O_APPEND" \in flags])]

\* lseek(fd, 0, SEEK_CUR): the offset of the open file description, -1 for
\* a descriptor that is not open
lseek_cur(tab, fd) ==
  IF fd - FirstFd + 1 \in DOMAIN tab THEN tab[fd - FirstFd + 1].offset ELSE -1

\* write(fd, one byte): the file and the description after it
OsWrite(fsys, tab, fd) ==
  LET d      == tab[fd - FirstFd + 1]
      data   == fsys[d.path]
      pos    == IF d.append THEN Len(data) ELSE d.offset
      padded == IF Len(data) < pos THEN data \o [i \in 1..(pos - Len(data)) |-> "0"] ELSE data
      done   == IF pos < Len(padded) THEN [padded EXCEPT ![pos + 1] = "x"]
                ELSE Append(padded, "x")
  IN  [fs  |-> [fsys EXCEPT ![d.path] = done],
       tab |-> [tab EXCEPT ![fd - FirstFd + 1].offset = pos + 1]]

-----------------------------------------------------------------------------
(* BaseLogFile *)

NoObject ==
  [st |-> "none", m_fd |-> -1, m_start_time |-> 0, m_end_time |-> 0,
   m_bytes_written |-> 0, m_name |-> <<>>, m_is_bootstrap |-> FALSE,
   m_meta_info |-> NULL]

\* the values m_signature, which no constructor initialises, may hold
SigValues == {1, Word - 1}

\* the values an uninitialised BaseMetaInfo member may hold
Garbage == {0, 1}

\* the record of an operation: what was called on which object with which
\* argument, what it returned, whether it called exists() and ::open() on
\* the log file, whether every system call on the metafile succeeded, and
\* the calls open_file() made, in the order it made them
Did(op, h, ret, exists_called, open_called, arg) ==
  [op |-> op, h |-> h, ret |-> ret, exists_called |-> exists_called,
   open_called |-> open_called, meta_ok |-> FALSE, arg |-> arg, steps |-> <<>>]

is_open(o) == o.m_fd >= 0

\* static bool rolled_logfile(char *path)
rolled_logfile(path) ==
  LET target_len == Len(LOGFILE_ROLLED_EXTENSION)
      len        == Len(path)
  IN  IF len > target_len
      THEN SubSeq(path, len - target_len + 1, len) = LOGFILE_ROLLED_EXTENSION
      ELSE FALSE

get_name(o) == o.m_name

exists(fsys, pathname) == FALSE

Live(h) == obj[h].st = "live"

\* BaseLogFile(const char *name, bool is_bootstrap)
Construct(h, name, is_bootstrap) ==
  /\ ~aborted
  /\ obj[h].st = "none"
  /\ \A g \in Handles : g < h => obj[g].st # "none"
  /\ obj' = [obj EXCEPT ![h] =
               [st |-> "live", m_fd |-> -1, m_start_time |-> 0, m_end_time |-> 0,
                m_bytes_written |-> 0, m_name |-> name,
                m_is_bootstrap |-> is_bootstrap, m_meta_info |-> NULL]]
  /\ last' = Did("construct", h, 0, FALSE, FALSE, <<>>)
  /\ UNCHANGED <<now, fs, fdtab, heap, store, aborted, hist>>

\* a memberwise copy: the copy shares the BaseMetaInfo of its source
CopyConstruct_memberwise(h, copy) ==
  /\ ~aborted
  /\ obj[h].st = "none"
  /\ \A g \in Handles : g < h => obj[g].st # "none"
  /\ Live(copy)
  /\ obj' = [obj EXCEPT ![h] =
               [st |-> "live", m_fd |-> -1, m_start_time |-> 0, m_end_time |-> 0,
                m_bytes_written |-> 0, m_name |-> obj[copy].m_name,
                m_is_bootstrap |-> obj[copy].m_is_bootstrap,
                m_meta_info |-> obj[copy].m_meta_info]]
  /\ last' = Did("copy", h, copy, FALSE, FALSE, <<>>)
  /\ UNCHANGED <<now, fs, fdtab, heap, store, aborted, hist>>

\* BaseLogFile(const BaseLogFile &copy); the record notes the source
CopyConstruct(h, copy) ==
  /\ ~aborted
  /\ obj[h].st = "none"
  /\ \A g \in Handles : g < h => obj[g].st # "none"
  /\ Live(copy)
  /\ obj' = [obj EXCEPT ![h] =
               [st |-> "live", m_fd |-> -1, m_start_time |-> 0, m_end_time |-> 0,
                m_bytes_written |-> 0, m_name |-> obj[copy].m_name,
                m_is_bootstrap |-> obj[copy].m_is_bootstrap, m_meta_info |-> NULL]]
  /\ last' = Did("copy", h, copy, FALSE, FALSE, <<>>)
  /\ UNCHANGED <<now, fs, fdtab, heap, store, aborted, hist>>

\* the effect of close_file() on an object
close_file_body(o) == o

close_file(h) ==
  /\ ~aborted
  /\ Live(h)
  /\ obj' = [obj EXCEPT ![h] = close_file_body(obj[h])]
  /\ last' = Did("close_file", h, 0, FALSE, FALSE, <<>>)
  /\ UNCHANGED <<now, fs, fdtab, heap, store, aborted, hist>>

\* ~BaseLogFile(): close_file(), then the name is freed
Destroy(h) ==
  /\ ~aborted
  /\ Live(h)
  /\ obj' = [obj EXCEPT ![h] = [close_file_body(obj[h]) EXCEPT !.st = "dead", !.m_name = <<>>]]
  /\ last' = Did("destroy", h, 0, FALSE, FALSE, <<>>)
  /\ UNCHANGED <<now, fs, fdtab, heap, store, aborted, hist>>

\* the effect of change_name(new_name) on an object
change_name_body(o, new_name) == o

change_name(h, new_name) ==
  /\ ~aborted
  /\ Live(h)
  /\ obj' = [obj EXCEPT ![h] = change_name_body(obj[h], new_name)]
  /\ last' = Did("change_name", h, 0, FALSE, FALSE, new_name)
  /\ UNCHANGED <<now, fs, fdtab, heap, store, aborted, hist>>

\* what roll(interval_start, interval_end) returns
roll_result(o, interval_start, interval_end) == 0

roll(h, interval_start, interval_end) ==
  /\ ~aborted
  /\ Live(h)
  /\ last' = Did("roll", h, roll_result(obj[h], interval_start, interval_end),
                 FALSE, FALSE, <<>>)
  /\ UNCHANGED <<now, fs, fdtab, heap, obj, store, aborted, hist>>

\* the outcomes of the system calls of _write_to_file
MetaIO ==
  {[open |-> FALSE, w1 |-> FALSE, w2 |-> FALSE]}
    \cup {[open |-> TRUE, w1 |-> a, w2 |-> b] : a, b \in BOOLEAN}

IoOk(io) == io.open /\ io.w1 /\ io.w2

\* lines 132-146 of open_file: the existence check and the BaseMetaInfo it
\* leads to. fresh: a BaseMetaInfo was allocated; m: that object.
MetaOutcomes(o, fsys, t) ==
  IF exists(fsys, o.m_name)
  THEN IF o.m_meta_info = NULL
       THEN {[fresh |-> TRUE, m |-> r.m, fs |-> fsys, abort |-> r.abort,
              ok |-> file_open_successful(r.m)] :
               r \in {BaseMetaInfoRead(o.m_name, fsys, openOk, g[1], g[2]) :
                        openOk \in BOOLEAN, g \in Garbage \X Garbage}}
       ELSE {[fresh |-> FALSE, m |-> o.m_meta_info, fs |-> fsys,
              abort |-> FALSE, ok |-> TRUE]}
  ELSE {[fresh |-> TRUE, m |-> r[1].m, fs |-> r[1].fs, abort |-> r[1].abort,
         ok |-> IoOk(r[2])] :
          r \in {<<BaseMetaInfoWrite(o.m_name, ToSigned(t), sig, fsys, io), io>> :
                   sig \in SigValues, io \in MetaIO}}

\* open_file() on an object that is open already
open_noop(h) ==
  /\ last' = Did("open_file", h, LOG_FILE_NO_ERROR, FALSE, FALSE, <<>>)
  /\ hist' = [hist EXCEPT ![h] = [ok |-> TRUE, failed |-> FALSE]]
  /\ UNCHANGED <<now, fs, fdtab, heap, obj, store, aborted>>

\* open_file() on an object named "stdout"
open_stdout(h) ==
  /\ obj' = [obj EXCEPT ![h].m_fd = STDOUT_FILENO]
  /\ last' = Did("open_file", h, LOG_FILE_NO_ERROR, FALSE, FALSE, <<>>)
  /\ hist' = [hist EXCEPT ![h] = [ok |-> TRUE, failed |-> FALSE]]
  /\ UNCHANGED <<now, fs, fdtab, heap, store, aborted>>

\* a descriptor tested like a pointer: only 0 counts as the failure
open_result_null_test(fd) ==
  IF fd = 0 THEN LOG_FILE_COULD_NOT_OPEN_FILE ELSE LOG_FILE_NO_ERROR

\* what open_file() returns for the descriptor ::open() gave
open_result(fd) ==
  IF fd < 0 THEN LOG_FILE_COULD_NOT_OPEN_FILE ELSE LOG_FILE_NO_ERROR

\* open_file() with the log file opened first and the BaseMetaInfo built
\* only once that open has succeeded
open_path_open_first(h) ==
  LET o == obj[h]
  IN  \E flags \in OpenFlags, err \in BOOLEAN :
        LET r  == OsOpen(fs, fdtab, o.m_name, flags, err)
            rc == open_result(r.fd)
        IN  IF rc = LOG_FILE_COULD_NOT_OPEN_FILE
            THEN /\ obj' = [obj EXCEPT ![h].m_fd = r.fd]
                 /\ last' = [Did("open_file", h, rc, TRUE, TRUE, <<>>)
                               EXCEPT !.meta_ok = TRUE, !.steps = <<"exists", "open">>]
                 /\ hist' = [hist EXCEPT ![h].failed = TRUE]
                 /\ UNCHANGED <<now, fs, fdtab, heap, store, aborted>>
            ELSE \E mo \in MetaOutcomes(o, r.fs, now) :
                   /\ mo.fresh => heap < MaxStores
                   /\ ~mo.abort
                   /\ heap' = IF mo.fresh THEN heap + 1 ELSE heap
                   /\ fs' = mo.fs
                   /\ fdtab' = r.tab
                   /\ obj' = [obj EXCEPT ![h] =
                                [o EXCEPT !.m_meta_info = mo.m, !.m_fd = r.fd,
                                          !.m_bytes_written =
                                             ToUnsigned(lseek_cur(r.tab, r.fd))]]
                   /\ last' = [Did("open_file", h, rc, TRUE, TRUE, <<>>)
                                 EXCEPT !.meta_ok = mo.ok,
                                        !.steps = <<"exists", "open", "BaseMetaInfo">>]
                   /\ hist' = [hist EXCEPT ![h] = [ok |-> TRUE, failed |-> FALSE]]
                   /\ UNCHANGED <<now, store, aborted>>

\* open_file() from the existence check on
open_path(h) ==
  LET o == obj[h]
  IN  \E mo \in MetaOutcomes(o, fs, now) :
        /\ mo.fresh => heap < MaxStores
        /\ IF mo.abort
           THEN /\ aborted' = TRUE
                /\ fs' = mo.fs
                /\ last' = [Did("open_file", h, -1, TRUE, FALSE, <<>>)
                              EXCEPT !.steps = <<"exists", "BaseMetaInfo">>]
                /\ UNCHANGED <<now, fdtab, heap, obj, store, hist>>
           ELSE \E flags \in OpenFlags, err \in BOOLEAN :
                  LET r  == OsOpen(mo.fs, fdtab, o.m_name, flags, err)
                      o1 == [o EXCEPT !.m_meta_info = mo.m, !.m_fd = r.fd]
                      rc == open_result(r.fd)
                  IN  /\ heap' = IF mo.fresh THEN heap + 1 ELSE heap
                      /\ fs' = r.fs
                      /\ fdtab' = r.tab
                      /\ obj' = [obj EXCEPT ![h] =
                                   IF rc = LOG_FILE_COULD_NOT_OPEN_FILE THEN o1
                                   ELSE [o1 EXCEPT !.m_bytes_written =
                                                     ToUnsigned(lseek_cur(r.tab, r.fd))]]
                      /\ last' = [Did("open_file", h, rc, TRUE, TRUE, <<>>)
                                    EXCEPT !.meta_ok = mo.ok,
                                           !.steps = <<"exists", "BaseMetaInfo", "open">>]
                      /\ hist' = [hist EXCEPT ![h] =
                                    IF rc = LOG_FILE_COULD_NOT_OPEN_FILE
                                    THEN [@ EXCEPT !.failed = TRUE]
                                    ELSE [ok |-> TRUE, failed |-> FALSE]]
                      /\ UNCHANGED <<now, store, aborted>>

\* open_file() without the early return for an object that is open
open_file_no_guard(h) ==
  /\ ~aborted
  /\ Live(h)
  /\ IF obj[h].m_name # <<>> /\ obj[h].m_name = StdoutName THEN open_stdout(h)
     ELSE open_path(h)

\* open_file() without the early return for the name "stdout"
open_file_no_stdout(h) ==
  /\ ~aborted
  /\ Live(h)
  /\ IF is_open(obj[h]) THEN open_noop(h) ELSE open_path(h)

open_file(h) ==
  /\ ~aborted
  /\ Live(h)
  /\ IF is_open(obj[h]) THEN open_noop(h)
     ELSE IF obj[h].m_name # <<>> /\ obj[h].m_name = StdoutName THEN open_stdout(h)
     ELSE open_path(h)

\* a caller writes one byte through m_fd and counts it in m_bytes_written
WriterAppend(h) ==
  /\ ~aborted
  /\ Live(h)
  /\ is_open(obj[h])
  /\ obj[h].m_bytes_written < MaxBytes
  /\ obj' = [obj EXCEPT ![h].m_bytes_written = ToUnsigned(@ + 1)]
  /\ IF obj[h].m_fd = STDOUT_FILENO
     THEN UNCHANGED <<fs, fdtab>>
     ELSE LET w == OsWrite(fs, fdtab, obj[h].m_fd)
          IN  fs' = w.fs /\ fdtab' = w.tab
  /\ last' = Did("write", h, 1, FALSE, FALSE, <<>>)
  /\ UNCHANGED <<now, heap, store, aborted, hist>>

\* time passes
Tick ==
  /\ ~aborted
  /\ now < MaxTime
  /\ now' = now + 1
  /\ last' = Did("tick", 0, 0, FALSE, FALSE, <<>>)
  /\ UNCHANGED <<fs, fdtab, heap, obj, store, aborted, hist>>

-----------------------------------------------------------------------------
(* The specification of the handle *)

Init ==
  /\ now = 1
  /\ fs = [p \in Paths |-> NoFile]
  /\ fdtab = <<>>
  /\ heap = 0
  /\ obj = [h \in Handles |-> NoObject]
  /\ store = NULL
  /\ aborted = FALSE
  /\ last = Did("init", 0, 0, FALSE, FALSE, <<>>)
  /\ hist = [h \in Handles |-> [ok |-> FALSE, failed |-> FALSE]]

Next ==
  \/ Tick
  \/ \E h \in Handles, a \in CtorArgs : Construct(h, a[1], a[2])
  \/ \E h, c \in Handles : CopyConstruct(h, c)
  \/ \E h \in Handles : Destroy(h)
  \/ \E h \in Handles : open_file(h)
  \/ \E h \in Handles : close_file(h)
  \/ \E h \in Handles, n \in Names : change_name(h, n)
  \/ \E h \in Handles : roll(h, 0, now)
  \/ \E h \in Handles : WriterAppend(h)

Spec == Init /\ [][Next]_vars

-----------------------------------------------------------------------------
(* The specification of a BaseMetaInfo constructed by a caller *)

\* creation times and signatures a caller passes: the ends of the ranges of
\* time_t (from 0) and uint64_t and the values where the digit count changes
MetaTimes == {0, 9, 10, Word \div 2 - 1}
MetaSigs  == {0, 9, 10, Word \div 2 - 1, Word \div 2, Word - 1}

\* new BaseMetaInfo(filename, creation, signature)
MetaWrite(filename, creation, signature, io) ==
  LET r == BaseMetaInfoWrite(filename, creation, signature, fs, io)
  IN  /\ ~aborted
      /\ store' = r.m
      /\ fs' = r.fs
      /\ aborted' = r.abort
      /\ last' = [Did("meta_write", 0, 0, FALSE, FALSE, filename)
                    EXCEPT !.meta_ok = IoOk(io)]
      /\ UNCHANGED <<now, fdtab, heap, obj, hist>>

\* new BaseMetaInfo(filename); the record notes (ret = 1) a read that
\* directly follows a write-mode construction for the same file whose system
\* calls all succeeded
MetaRead(filename, openOk, garbageT, garbageS) ==
  LET r == BaseMetaInfoRead(filename, fs, openOk, garbageT, garbageS)
  IN  /\ ~aborted
      /\ store' = r.m
      /\ aborted' = r.abort
      /\ last' = [Did("meta_read", 0,
                        IF last.op = "meta_write" /\ last.arg = filename /\ last.meta_ok
                        THEN 1 ELSE 0,
                        FALSE, FALSE, filename)
                    EXCEPT !.meta_ok = file_open_successful(r.m)]
      /\ UNCHANGED <<now, fs, fdtab, heap, obj, hist>>

\* the log file names a caller constructs a BaseMetaInfo for
MetaNames == {PlainName}

MetaNext ==
  \/ \E f \in MetaNames, t \in MetaTimes, s \in MetaSigs, io \in MetaIO :
       MetaWrite(f, t, s, io)
  \/ \E f \in MetaNames, openOk \in BOOLEAN, g \in Garbage \X Garbage :
       MetaRead(f, openOk, g[1], g[2])

MetaSpec == Init /\ [][MetaNext]_vars

-----------------------------------------------------------------------------
(* The specification of the two functions of a path *)

PathChars == {".", "o", "l", "d", "2", "/"}

\* the paths a caller passes: every string over PathChars up to MaxPathLen
PathInputs == UNION {[1..k -> PathChars] : k \in 0..MaxPathLen}

PathInit ==
  /\ now = 1
  /\ fs = [p \in Paths |-> NoFile]
  /\ fdtab = <<>>
  /\ heap = 0
  /\ obj = [h \in Handles |-> NoObject]
  /\ store = NULL
  /\ aborted = FALSE
  /\ \E path \in PathInputs : last = Did("path", 0, 0, FALSE, FALSE, path)
  /\ hist = [h \in Handles |-> [ok |-> FALSE, failed |-> FALSE]]

\* BaseLogFile::rolled_logfile(path); the record holds 1 for true
RolledLogfile ==
  /\ last.op = "path"
  /\ last' = Did("rolled_logfile", 0, IF rolled_logfile(last.arg) THEN 1 ELSE 0,
                 FALSE, FALSE, last.arg)
  /\ UNCHANGED <<now, fs, fdtab, heap, obj, store, aborted, hist>>

\* BaseMetaInfo::_build_name(filename) sets _filename
BuildName ==
  /\ last.op = "path"
  /\ store' = [store EXCEPT !._filename = _build_name(last.arg)]
  /\ last' = Did("_build_name", 0, 0, FALSE, FALSE, last.arg)
  /\ UNCHANGED <<now, fs, fdtab, heap, obj, aborted, hist>>

PathNext == RolledLogfile \/ BuildName

PathSpec == PathInit /\ [][PathNext]_vars

-----------------------------------------------------------------------------
(* The specification of a BaseMetaInfo reading a metafile found on disk *)

\* the kinds of line a metafile found on disk is made of
LineKinds == {"blank", "noeq", "novalue", "ct", "sig", "unknown"}

LineText(kind) ==
  CASE kind = "blank"   -> <<"\n">>
    [] kind = "noeq"    -> <<"x", "\n">>
    [] kind = "novalue" -> CreationTimeKey \o <<" ", "=", "\n">>
    [] kind = "ct"      -> CreationTimeKey \o <<" ", "=", " ", "7", "\n">>
    [] kind = "sig"     -> SignatureKey \o <<" ", "=", " ", "9", "\n">>
    [] kind = "unknown" -> <<"k", " ", "=", " ", "1", "\n">>

\* the metafiles: every sequence of up to MaxLines lines
MetaFiles == UNION {[1..k -> LineKinds] : k \in 0..MaxLines}

RECURSIVE FileText(_)
FileText(kinds) ==
  IF Len(kinds) = 0 THEN <<>>
  ELSE LineText(kinds[1]) \o FileText([i \in 1..(Len(kinds) - 1) |-> kinds[i + 1]])

\* the metafile of a log file is on disk with these lines (left by an
\* earlier process, or edited by hand); the record holds the lines' kinds
ParseInit ==
  /\ now = 1
  /\ fdtab = <<>>
  /\ heap = 0
  /\ obj = [h \in Handles |-> NoObject]
  /\ store = NULL
  /\ aborted = FALSE
  /\ hist = [h \in Handles |-> [ok |-> FALSE, failed |-> FALSE]]
  /\ \E f \in MetaNames, kinds \in MetaFiles :
       /\ fs = [p \in Paths |-> IF p = _build_name(f) THEN FileText(kinds) ELSE NoFile]
       /\ last = Did("plant", 0, 0, FALSE, FALSE, kinds)

ParseNext ==
  \E f \in MetaNames, openOk \in BOOLEAN, g \in Garbage \X Garbage :
    MetaRead(f, openOk, g[1], g[2])

ParseSpec == ParseInit /\ [][ParseNext]_vars

-----------------------------------------------------------------------------
(* Properties *)

\* the metafile of the log file `name`
Sidecar(name) == _build_name(name)

\* what a read of the metafile of `name` gives as creation time
HeldTime(fsys, name) ==
  IF fsys[Sidecar(name)] = NoFile THEN <<FALSE>>
  ELSE get_creation_time(BaseMetaInfoRead(name, fsys, TRUE, 0, 0).m)

\* the step is a call of open_file() on h
OpenFileStep(h) == last'.op = "open_file" /\ last'.h = h

\* C1: restart recovery. When a fresh object (no BaseMetaInfo yet, start
\* time 0) calls open_file() on a path whose log file and metafile both
\* exist, the metafile holding creation time T, then the object's
\* BaseMetaInfo reports (true, T) and the metafile still holds T. (Stated
\* for the calls in which no system call on the metafile fails.)
C1_RestartRecovery ==
  [][\A h \in Handles :
       ( /\ OpenFileStep(h)
         /\ last'.open_called
         /\ last'.meta_ok
         /\ obj[h].m_meta_info = NULL
         /\ obj[h].m_start_time = 0
         /\ fs[obj[h].m_name] # NoFile
         /\ HeldTime(fs, obj[h].m_name)[1] )
       => /\ get_creation_time(obj'[h].m_meta_info) = HeldTime(fs, obj[h].m_name)
          /\ HeldTime(fs', obj[h].m_name) = HeldTime(fs, obj[h].m_name)]_vars

C3_AsStated ==
  \A h \in Handles : obj[h].m_meta_info # NULL => hist[h].ok

\* C3 amended: m_meta_info turns non-null only in an open_file() call on
\* that object that goes on to ::open() the log file, whether that call
\* then returns LOG_FILE_NO_ERROR or LOG_FILE_COULD_NOT_OPEN_FILE; an
\* object on which open_file() never ran has none.
C3_MetaOnlyFromOpen ==
  [][\A h \in Handles :
       (obj[h].m_meta_info = NULL /\ obj'[h].m_meta_info # NULL)
       => /\ OpenFileStep(h)
          /\ last'.open_called
          /\ last'.ret \in {LOG_FILE_NO_ERROR, LOG_FILE_COULD_NOT_OPEN_FILE}]_vars

\* an object all of whose open_file() calls failed holds a BaseMetaInfo
C3_Witness ==
  \E h \in Handles :
    /\ last.op = "open_file" /\ last.h = h
    /\ last.ret = LOG_FILE_COULD_NOT_OPEN_FILE
    /\ ~hist[h].ok
    /\ obj[h].m_meta_info # NULL

\* C4: when ::open() of the log file fails (no description is created),
\* open_file() returns LOG_FILE_COULD_NOT_OPEN_FILE and leaves is_open()
\* false; and an open_file() on an object whose latest open_file() failed
\* calls ::open() again.
C4_FailedOpenStaysClosed ==
  [][\A h \in Handles :
       OpenFileStep(h) =>
         /\ (last'.open_called /\ fdtab' = fdtab) =>
              /\ last'.ret = LOG_FILE_COULD_NOT_OPEN_FILE
              /\ ~is_open(obj'[h])
         /\ last'.ret = LOG_FILE_COULD_NOT_OPEN_FILE => hist'[h].failed /\ ~is_open(obj'[h])
         /\ hist[h].failed => ~is_open(obj[h]) /\ last'.open_called]_vars

\* a second open_file() on the one object there is, after a failed first
\* one, reached ::open() and succeeded
C4_Witness ==
  /\ last.op = "open_file" /\ last.h = 1 /\ last.open_called
  /\ last.ret = LOG_FILE_NO_ERROR
  /\ heap = 2 /\ Len(fdtab) = 1
  /\ \A h \in Handles : h # 1 => obj[h].st = "none"

\* C5: open_file() on an object that is open returns LOG_FILE_NO_ERROR and
\* changes neither the object (descriptor, byte count, BaseMetaInfo) nor
\* the file system.
C5_OpenWhenOpenIsNoop ==
  [][\A h \in Handles :
       (OpenFileStep(h) /\ is_open(obj[h]))
       => /\ last'.ret = LOG_FILE_NO_ERROR
          /\ obj' = obj
          /\ fs' = fs
          /\ fdtab' = fdtab
          /\ heap' = heap]_vars

\* open_file() returned at once on an open object of a log file that holds
\* written bytes
C5_Witness ==
  \E h \in Handles :
    /\ last.op = "open_file" /\ last.h = h /\ ~last.open_called
    /\ obj[h].m_name = DirName
    /\ is_open(obj[h])
    /\ obj[h].m_bytes_written > 0
    /\ fs[DirName] # <<>>

\* C6: open_file() on an object named "stdout" returns LOG_FILE_NO_ERROR
\* with m_fd = STDOUT_FILENO, does not call exists(), leaves the file
\* system as it was and m_meta_info null.
C6_StdoutTouchesNothing ==
  [][\A h \in Handles :
       (OpenFileStep(h) /\ obj[h].m_name = StdoutName)
       => /\ last'.ret = LOG_FILE_NO_ERROR
          /\ obj'[h].m_fd = STDOUT_FILENO
          /\ ~last'.exists_called
          /\ ~last'.open_called
          /\ fs' = fs
          /\ heap' = heap
          /\ obj'[h].m_meta_info = NULL]_vars

\* open_file() ran on an object named "stdout" while no file existed
C6_Witness ==
  \E h \in Handles :
    /\ last.op = "open_file" /\ last.h = h
    /\ obj[h].m_name = StdoutName
    /\ obj[h].m_fd = STDOUT_FILENO
    /\ \A p \in Paths : fs[p] = NoFile

\* C7: after close_file() the object is closed, its descriptor the closed
\* sentinel -1.
C7_CloseReleases ==
  last.op = "close_file" => (~is_open(obj[last.h]) /\ obj[last.h].m_fd = -1)

\* C8: m_bytes_written of an object never decreases.
C8_BytesWrittenMonotonic ==
  [][\A h \in Handles :
       (Live(h) /\ obj'[h].st = "live")
       => obj'[h].m_bytes_written >= obj[h].m_bytes_written]_vars

\* open_file() ran on an object that had counted written bytes
C8_Witness ==
  \E h \in Handles :
    /\ last.op = "open_file" /\ last.h = h
    /\ obj[h].m_bytes_written > 0

\* C9: after a successful open_file() on a path, m_bytes_written is the
\* size of the log file.
C9_BytesWrittenIsFileSize ==
  ( /\ last.op = "open_file" /\ last.open_called
    /\ last.ret = LOG_FILE_NO_ERROR )
  => obj[last.h].m_bytes_written = Len(fs[obj[last.h].m_name])

ReadsPlanted == last.op = "plant" /\ last'.op = "meta_read" /\ last'.meta_ok

\* some line of the file is of the kind
HasKind(kinds, kind) == \E i \in DOMAIN kinds : kinds[i] = kind

\* what a store holds after reading a file with these lines to the end:
\* the fields of the well-formed lines, nothing else
HoldsFieldsOf(m, kinds) ==
  /\ get_creation_time(m) = IF HasKind(kinds, "ct") THEN <<TRUE, 7>> ELSE <<FALSE>>
  /\ get_log_object_signature(m) = IF HasKind(kinds, "sig") THEN <<TRUE, 9>> ELSE <<FALSE>>
  /\ ~HasKind(kinds, "ct") => m._creation_time \in Garbage
  /\ ~HasKind(kinds, "sig") => m._log_object_signature \in Garbage
  /\ m._flags = {DATA_FROM_METAFILE, FILE_OPEN_SUCCESSFUL}
                  \cup (IF HasKind(kinds, "ct") THEN {VALID_CREATION_TIME} ELSE {})
                  \cup (IF HasKind(kinds, "sig") THEN {VALID_SIGNATURE} ELSE {})

\* the path ends with ".old"
EndsWithRolledExtension(path) ==
  /\ Len(path) >= 4
  /\ path[Len(path) - 3] = "." /\ path[Len(path) - 2] = "o"
  /\ path[Len(path) - 1] = "l" /\ path[Len(path)] = "d"

\* C11: rolled_logfile(path) is true if and only if the path ends with
\* ".old", the path ".old" itself included; it is false for paths ending in
\* ".old2", for shorter paths and for paths without the suffix.
C11_RolledIffSuffix ==
  last.op = "rolled_logfile" => ((last.ret = 1) <=> EndsWithRolledExtension(last.arg))

\* C12: the name _build_name derives from a path is the path with "."
\* put right after its last '/' (at the start when it has none) and ".meta"
\* appended: the directory part is kept and the result is 6 characters
\* longer than the path.
C12_SidecarName ==
  last.op = "_build_name" =>
    LET path == last.arg
        name == store._filename
    IN  /\ Len(name) = Len(path) + 6
        /\ \E k \in 0..Len(path) :
             /\ k = 0 \/ path[k] = "/"
             /\ \A j \in (k + 1)..Len(path) : path[j] # "/"
             /\ \A j \in 1..k : name[j] = path[j]
             /\ name[k + 1] = "."
             /\ \A j \in (k + 1)..Len(path) : name[j + 1] = path[j]
             /\ \A j \in 1..5 : name[Len(path) + 1 + j] = MetaExt[j]

\* the name was derived from a path with two directory separators
C12_Witness ==
  /\ last.op = "_build_name"
  /\ last.arg = <<"d", "/", "l", "/", "o">>
  /\ store._filename = <<"d", "/", "l", "/", ".", "o", ".", "m", "e", "t", "a">>

\* C13: parsing a metafile never ends the process because of a malformed
\* line, on line 1 or later: a blank line, a line without '=' and a
\* recognised key without a value are skipped, and every well-formed
\* creation_time / object_signature line of the file sets its field and flag.
C13_MalformedSkipped ==
  [][(ReadsPlanted /\ ~HasKind(last.arg, "unknown"))
     => /\ ~aborted'
        /\ HoldsFieldsOf(store', last.arg)]_vars

\* C14: when the metafile of an existing log file cannot be opened for
\* reading (it is not there), open_file() on a fresh object builds a
\* BaseMetaInfo for which data_from_metafile() is true,
\* file_open_successful() is false and both getters return false, and goes
\* on to ::open() the log file.
C14_UnreadableSidecar ==
  [][\A h \in Handles :
       ( /\ OpenFileStep(h)
         /\ ~is_open(obj[h])
         /\ obj[h].m_name # StdoutName
         /\ obj[h].m_meta_info = NULL
         /\ fs[obj[h].m_name] # NoFile
         /\ fs[Sidecar(obj[h].m_name)] = NoFile )
       => /\ last'.open_called
          /\ data_from_metafile(obj'[h].m_meta_info)
          /\ ~file_open_successful(obj'[h].m_meta_info)
          /\ get_creation_time(obj'[h].m_meta_info) = <<FALSE>>
          /\ get_log_object_signature(obj'[h].m_meta_info) = <<FALSE>>]_vars

\* the part of C14 about the BaseMetaInfo alone: a read-mode construction
\* whose open() of the metafile fails ends with only DATA_FROM_METAFILE set
C14_ReadModeAlone ==
  [][(last'.op = "meta_read" /\ ~last'.meta_ok)
     => /\ ~aborted'
        /\ data_from_metafile(store')
        /\ ~file_open_successful(store')
        /\ get_creation_time(store') = <<FALSE>>
        /\ get_log_object_signature(store') = <<FALSE>>]_vars

\* C15: roll() on an open object whose log file holds written entries
\* rotates the file: afterwards the object is open on a fresh file under the
\* original name, and roll() returns true exactly when that happened.
C15_RollRotates ==
  [][\A h \in Handles :
       ( /\ last'.op = "roll" /\ last'.h = h
         /\ is_open(obj[h])
         /\ obj[h].m_name # StdoutName
         /\ obj[h].m_bytes_written > 0
         /\ fs[obj[h].m_name] # <<>> )
       => /\ last'.ret = 1
          /\ is_open(obj'[h])
          /\ fs'[obj[h].m_name] = <<>>]_vars

\* C16: after change_name(new_name) get_name() returns new_name, and the
\* descriptor and the byte count are as before.
C16_ChangeNameTakesEffect ==
  [][\A h \in Handles :
       (last'.op = "change_name" /\ last'.h = h)
       => /\ get_name(obj'[h]) = last'.arg
          /\ obj'[h].m_fd = obj[h].m_fd
          /\ obj'[h].m_bytes_written = obj[h].m_bytes_written]_vars

\* C17: the copy of an object, whatever the state of the source, has the
\* source's name and bootstrap flag, is closed, has byte count, start and
\* end time 0 and no BaseMetaInfo; the source is unchanged, no descriptor is
\* opened and no BaseMetaInfo allocated, and the two share neither.
C17_CopyStartsClosed ==
  [][last'.op = "copy" =>
       LET h == last'.h
           c == last'.ret
       IN  /\ obj'[h].st = "live"
           /\ obj'[h].m_name = obj[c].m_name
           /\ obj'[h].m_is_bootstrap = obj[c].m_is_bootstrap
           /\ ~is_open(obj'[h])
           /\ obj'[h].m_fd = -1
           /\ obj'[h].m_bytes_written = 0
           /\ obj'[h].m_start_time = 0
           /\ obj'[h].m_end_time = 0
           /\ obj'[h].m_meta_info = NULL
           /\ obj'[c] = obj[c]
           /\ fdtab' = fdtab
           /\ heap' = heap
           /\ fs' = fs]_vars

\* an object was copied while it was open on a log file with written bytes
\* and held a BaseMetaInfo
C17_Witness ==
  /\ last.op = "copy"
  /\ is_open(obj[last.ret])
  /\ obj[last.ret].m_name = DirName
  /\ obj[last.ret].m_bytes_written > 0
  /\ obj[last.ret].m_meta_info # NULL
  /\ obj[last.h].m_name = DirName

\* C18: the live BaseMetaInfo objects are never more than the live
\* BaseLogFile objects: an object owns at most one, the one it held is
\* deleted when open_file() attaches another, and its own when it is
\* destroyed.
C18_StoresWithinHandles ==
  heap <= Cardinality({h \in Handles : Live(h)})

\* C19: a line whose key (its first field) is neither creation_time nor
\* object_signature ends the process exactly when it is line 1; on a later
\* line it is passed over, the fields and flags staying as they were and the
\* lines after it being parsed.
C19_UnknownKeyFirstLineOnly ==
  [][ReadsPlanted =>
       LET kinds == last.arg
       IN  /\ aborted' <=> (Len(kinds) > 0 /\ kinds[1] \in {"unknown", "noeq"})
           /\ ~aborted' => HoldsFieldsOf(store', kinds)]_vars

\* a file with an unrecognised key on line 2 was read to the end, the
\* creation_time line after it included
C19_Witness ==
  /\ last.op = "meta_read" /\ last.meta_ok
  /\ ~aborted
  /\ fs[Sidecar(PlainName)] = FileText(<<"blank", "unknown", "ct">>)
  /\ get_creation_time(store) = <<TRUE, 7>>
  /\ get_log_object_signature(store) = <<FALSE>>

\* the step is open_file() on an object that is closed and not named
\* "stdout"
OpensPath(h) == OpenFileStep(h) /\ ~is_open(obj[h]) /\ obj[h].m_name # StdoutName

=============================================================================
